---- MODULE Spec2Model ----
(***************************************************************************)
(* Model of nifty_monthly.py: the expiry-day snapshot pipeline.            *)
(*                                                                         *)
(* main() walks SYMBOL_CONFIG; for each index process_index() checks the   *)
(* expiry, computes the strike range, filters the contracts, and runs      *)
(* download_symbol() for every contract on a ThreadPoolExecutor of         *)
(* MAX_WORKERS threads while the calling thread consumes as_completed().   *)
(*                                                                         *)
(* Contracts are numbered 1, 2, ... in submission order over the run; a    *)
(* contract's number stands for its TradingSymbol.                         *)
(***************************************************************************)
EXTENDS Integers, Sequences, FiniteSets, TLC

\* ---------------------------------------------------------------- constants
MAX_RETRIES == 3
MAX_WORKERS == 3
\* len(SYMBOL_CONFIG): BANKNIFTY, FINNIFTY, MIDCPNIFTY
NumIndices == 3

\* ------------------------------------------------------------------- bounds
\* contracts that pass get_option_symbols, summed over the indices of a run
MaxContracts == 3
\* contracts that pass get_option_symbols for the last index, when the
\* earlier indices had no expiry (specification SpecBatch)
MaxBatch == 4

\* ------------------------------------------------------------------- values
None == "None"
\* process_index's return value: None, or the bytes of an archive, which
\* the model keeps as the archive's entry names
NoBytes == [some |-> FALSE, entries |-> <<>>]
Bytes(entries) == [some |-> TRUE, entries |-> entries]
\* the loop body's (symbol, data, err) before the first future.result()
NoResult == [kind |-> "none", symbol |-> 0, data |-> None, err |-> None]

\* what one smart.getCandleData(params) call can do
\*   exc          the call raises (transport error)
\*   notok        a falsy response or a falsy "status"
\*   ok_data      truthy status, "data" a non-empty list of 6-field rows
\*   ok_empty     truthy status, "data" missing or empty
\*   ok_malformed truthy status, "data" a non-empty list pandas cannot
\*                turn into the six-column frame
ProviderResponses == {"exc", "notok", "ok_data", "ok_empty", "ok_malformed"}
OkResponses == {"ok_data", "ok_empty", "ok_malformed"}

\* the tables load_symbol_master can return: with every column the run
\* reads, or without the TradingSymbol or Token column download_symbol reads
MasterTables == {"complete", "no_contract_columns"}

\* no pure-function call is being examined
NoCall == [fn |-> "none"]

VARIABLES
    \* main()
    mpc,            \* position of main(): "loop", "in_index", "got", "save", "caught", "done"
    idx,            \* 1-based position in SYMBOL_CONFIG.items()
    zip_bytes,      \* value process_index returned to main
    processed,      \* processed[i]: number of process_index calls made for index i
    sent,           \* sent[i]: number of send_zip_to_telegram calls made for index i
    caught,         \* indices whose loop body ended in the except clause
    \* process_index() locals and progress
    ppc,            \* position inside process_index, "idle" outside
    is_expiry,      \* result of is_today_expiry: "unset", "True", "False"
    strike_range,   \* start, end of calculate_strike_range: "unset", None, "present"
    calls,          \* calls made for the current index: [range, filter, submit]
    args,           \* contracts get_option_symbols returned, in submission order
    futures,        \* futures[c]: the state of download_symbol for a submitted contract c
    yielded,        \* futures as_completed has already handed out
    cur,            \* the (symbol, data, err) the loop body is handling
    zip_buf,        \* entries of the zip archive, in insertion order
    index_success,
    index_failed,
    term,           \* how process_index ended for the current index
    \* module globals
    success_list,
    failed_list,
    failed_details,
    zip_lock,       \* FALSE free, TRUE held by the thread in process_index
    counter_lock,
    next_symbol,    \* number of the next contract to come out of the filter
    remaining,      \* contracts the reference table still has for this run
    \* one call of a pure function, outside a run
    pure,           \* its arguments, the position of the call and its results
    \* the symbol master
    df_master       \* what load_symbol_master returned: "unloaded" before line 387,
                    \* "complete", or "no_contract_columns" for a table without
                    \* the TradingSymbol or Token column

vars == <<mpc, idx, zip_bytes, processed, sent, caught, ppc, is_expiry, strike_range,
          calls, args, futures, yielded, cur, zip_buf, index_success,
          index_failed, term, success_list, failed_list, failed_details,
          zip_lock, counter_lock, next_symbol, remaining, pure, df_master>>

mainVars == <<mpc, idx, zip_bytes, processed, sent, caught>>
globalVars == <<success_list, failed_list, failed_details>>
lockVars == <<zip_lock, counter_lock>>
batchVars == <<zip_buf, index_success, index_failed>>
poolVars == <<args, futures, yielded, cur>>
stageVars == <<is_expiry, strike_range, calls>>

Indices == 1..NumIndices

\* ------------------------------------------------------------------ helpers
Range(s) == {s[k] : k \in 1..Len(s)}

\* a future as submit() creates it: queued, download_symbol not yet started
\* While download_symbol runs, i is the loop variable of
\* get_candles_with_retry, nreq the requests it has sent and nfail the
\* attempts that failed; a finished future keeps only r, the value
\* get_candles_with_retry returned, which decides download_symbol's result.
NewFuture == [st |-> "queued", i |-> 0, nreq |-> 0, nfail |-> 0, r |-> "unset"]

Running(c) == futures[c].st \in {"request", "sleep"}
Done(c) == futures[c].st = "done"
Submitted == DOMAIN futures

\* download_symbol's end for a value r of get_candles_with_retry, or for
\* "key_error" when it never got that far: (symbol, bytes, None),
\* (symbol, None, "No data"), or an exception out of the pandas conversion
\* or out of the row lookup.
download_result(c, r) ==
    IF r = "ok_data"
        THEN [kind |-> "return", symbol |-> c, data |-> "bytes", err |-> None]
    ELSE IF r \in {"ok_malformed", "key_error"}
        THEN [kind |-> "raise", symbol |-> c, data |-> None, err |-> None]
    ELSE [kind |-> "return", symbol |-> c, data |-> None, err |-> "No data"]

Outcome(c) == download_result(c, futures[c].r)

\* ---------------------------------------------------------------- Init
Init ==
    /\ mpc = "loop"
    /\ idx = 1
    /\ zip_bytes = NoBytes
    /\ processed = [k \in Indices |-> 0]
    /\ sent = [k \in Indices |-> 0]
    /\ caught = {}
    /\ ppc = "idle"
    /\ is_expiry = "unset"
    /\ strike_range = "unset"
    /\ calls = [range |-> 0, filter |-> 0, submit |-> 0]
    /\ args = <<>>
    /\ futures = <<>>
    /\ yielded = {}
    /\ cur = NoResult
    /\ zip_buf = <<>>
    /\ index_success = <<>>
    /\ index_failed = <<>>
    /\ term = "none"
    /\ success_list = <<>>
    /\ failed_list = <<>>
    /\ failed_details = <<>>
    /\ zip_lock = FALSE
    /\ counter_lock = FALSE
    /\ next_symbol = 1
    /\ remaining = MaxContracts
    /\ pure = NoCall
    /\ df_master \in MasterTables

\* ------------------------------------------------ worker: download_symbol
\* lines 257 and 259: the seconds of time.sleep((i + 1) * 5)
SleepSeconds(i) == (i + 1) * 5

\* the loop running one iteration too many: range(MAX_RETRIES + 1)
HasNextAttempt_OneMore(i) == i + 1 <= MAX_RETRIES

\* for i in range(MAX_RETRIES): whether the loop has another iteration
\* after the one with loop variable i
HasNextAttempt(i) == i + 1 < MAX_RETRIES

\* a pool that starts a thread for every work item
PoolHasIdleThread_Unbounded == TRUE

\* the pool runs a queued work item only on one of its MAX_WORKERS threads
PoolHasIdleThread == Cardinality({d \in Submitted : Running(d)}) < MAX_WORKERS

\* lines 264-276: download_symbol reads row["TradingSymbol"] and
\* row["Token"], outside any try block: on a table without one of the two
\* columns it raises KeyError before any request (get_candles_with_retry is
\* not called); otherwise it enters get_candles_with_retry, loop variable
\* i = 0, first request sent.
download_symbol_start(f, table) ==
    IF table = "complete"
        THEN [f EXCEPT !.st = "request", !.i = 0, !.nreq = 1]
        ELSE [f EXCEPT !.st = "done", !.r = "key_error"]

\* A pool thread takes the oldest queued work item and runs download_symbol.
WorkerStart(c) ==
    /\ c \in Submitted
    /\ futures[c].st = "queued"
    /\ \A d \in Submitted : d < c => futures[d].st # "queued"
    /\ PoolHasIdleThread
    /\ futures' = [futures EXCEPT ![c] = download_symbol_start(@, df_master)]
    /\ UNCHANGED <<mainVars, ppc, stageVars, args, yielded, cur, batchVars,
                   term, globalVars, lockVars, next_symbol, remaining, pure, df_master>>

\* smart.getCandleData returns or raises.  A truthy status returns r from
\* get_candles_with_retry and download_symbol runs to its end (return or
\* exception); anything else goes to time.sleep((i + 1) * 5).
get_candles_attempt(f, resp) ==
    IF resp \in OkResponses
        THEN [f EXCEPT !.st = "done", !.r = resp,
                       !.i = 0, !.nreq = 0, !.nfail = 0]
        ELSE [f EXCEPT !.st = "sleep", !.nfail = @ + 1]

WorkerResponse(c) ==
    /\ c \in Submitted
    /\ futures[c].st = "request"
    /\ \E resp \in ProviderResponses :
          futures' = [futures EXCEPT ![c] = get_candles_attempt(@, resp)]
    /\ UNCHANGED <<mainVars, ppc, stageVars, args, yielded, cur, batchVars,
                   term, globalVars, lockVars, next_symbol, remaining, pure, df_master>>

\* a retry loop that starts over when its attempts are used up
get_candles_after_sleep_Forever(f) ==
    IF HasNextAttempt(f.i)
        THEN [f EXCEPT !.st = "request", !.i = @ + 1, !.nreq = @ + 1]
        ELSE [f EXCEPT !.st = "request", !.i = 0, !.nreq = 1, !.nfail = 0]

\* time.sleep((i + 1) * 5) is over: the next iteration sends a request, or
\* the loop is exhausted and get_candles_with_retry returns None.
get_candles_after_sleep(f) ==
    IF HasNextAttempt(f.i)
        THEN [f EXCEPT !.st = "request", !.i = @ + 1, !.nreq = @ + 1]
        ELSE [f EXCEPT !.st = "done", !.r = None,
                       !.i = 0, !.nreq = 0, !.nfail = 0]

WorkerWake(c) ==
    /\ c \in Submitted
    /\ futures[c].st = "sleep"
    /\ futures' = [futures EXCEPT ![c] = get_candles_after_sleep(@)]
    /\ UNCHANGED <<mainVars, ppc, stageVars, args, yielded, cur, batchVars,
                   term, globalVars, lockVars, next_symbol, remaining, pure, df_master>>

\* --------------------------------------------------------- process_index
\* process_index returns val to main (zip_bytes = process_index(...))
Return(val, how) ==
    /\ ppc' = "idle"
    /\ mpc' = "got"
    /\ zip_bytes' = val
    /\ term' = how

\* an exception leaves process_index and lands in main's except clause
Raise ==
    /\ ppc' = "idle"
    /\ mpc' = "caught"
    /\ term' = "Raised"
    /\ UNCHANGED zip_bytes

\* process_index without the "if not is_expiry: return None"
ExpiryGate_NoReturn(e) == "range"

\* lines 299-302: is_today_expiry, which raises when an Expiry string of the
\* index does not parse as %d-%b-%Y
ExpiryGate(e) == IF e = "True" THEN "range" ELSE "skip"

CheckExpiry ==
    /\ ppc = "expiry"
    /\ \E e \in {"True", "False", "raise"} :
          IF e = "raise"
              THEN Raise /\ UNCHANGED is_expiry
              ELSE /\ is_expiry' = e
                   /\ IF ExpiryGate(e) = "skip"
                          THEN Return(NoBytes, "Skipped")
                          ELSE /\ ppc' = "range"
                               /\ UNCHANGED <<mpc, zip_bytes, term>>
    /\ UNCHANGED <<idx, processed, sent, caught, strike_range, calls, poolVars,
                   batchVars, globalVars, lockVars, next_symbol, remaining, pure, df_master>>

\* lines 307-310: calculate_strike_range returns (None, None) when
\* get_historical_data has nothing and a range otherwise, or it raises: on a
\* summary whose min_low or max_high is not a finite number (NaN of an
\* all-null column, a string) lines 170-171 raise ValueError or TypeError,
\* which nothing in process_index catches
RangeGate(rng) == IF rng = None THEN "skip" ELSE "filter"

CalcRange ==
    /\ ppc = "range"
    /\ calls' = [calls EXCEPT !.range = @ + 1]
    /\ \E rng \in {None, "present", "raise"} :
          IF rng = "raise"
              THEN Raise /\ UNCHANGED strike_range
              ELSE /\ strike_range' = rng
                   /\ IF RangeGate(rng) = "skip"
                          THEN Return(NoBytes, "Skipped")
                          ELSE /\ ppc' = "filter"
                               /\ UNCHANGED <<mpc, zip_bytes, term>>
    /\ UNCHANGED <<idx, processed, sent, caught, is_expiry, poolVars, batchVars,
                   globalVars, lockVars, next_symbol, remaining, pure, df_master>>

\* lines 315-335: get_option_symbols returns n rows; args holds one tuple
\* per row, in row order.  get_option_symbols raises on a reference table
\* it cannot read (KeyError of df["StrikePrice"] at line 209 when the column
\* is missing), and nothing in process_index catches that
FilterGate(n) == IF n = 0 THEN "skip" ELSE "submit"

GetSymbols ==
    /\ ppc = "filter"
    /\ calls' = [calls EXCEPT !.filter = @ + 1]
    /\ \/ \E n \in 0..remaining :
             /\ args' = [k \in 1..n |-> next_symbol + k - 1]
             /\ next_symbol' = next_symbol + n
             /\ remaining' = remaining - n
             /\ IF FilterGate(n) = "skip"
                    THEN Return(NoBytes, "Skipped")
                    ELSE /\ ppc' = "submit"
                         /\ UNCHANGED <<mpc, zip_bytes, term>>
       \/ /\ Raise
          /\ UNCHANGED <<args, next_symbol, remaining>>
    /\ UNCHANGED <<idx, processed, sent, caught, is_expiry, strike_range, futures,
                   yielded, cur, batchVars, globalVars, lockVars, pure, df_master>>

\* line 346: ex.submit(download_symbol, arg) for the next arg
Submit ==
    /\ ppc = "submit"
    /\ LET k == Cardinality(Submitted) + 1
           c == args[k]
       IN  /\ futures' = (c :> NewFuture) @@ futures
           /\ ppc' = IF k = Len(args) THEN "as_completed" ELSE "submit"
    /\ calls' = [calls EXCEPT !.submit = @ + 1]
    /\ UNCHANGED <<mainVars, is_expiry, strike_range, args, yielded, cur,
                   batchVars, term, globalVars, lockVars, next_symbol, remaining, pure, df_master>>

\* the loop body without its else branch: a failure is not recorded
ResultBranch_NoElse(res) ==
    IF res.kind = "raise" THEN "unwind"
    ELSE IF res.data # None THEN "zip_acquire"
    ELSE "as_completed"

\* lines 348-350, 355: as_completed hands out a finished future not handed
\* out before; future.result() returns download_symbol's tuple or re-raises
\* its exception, which leaves the for loop
ResultBranch(res) ==
    IF res.kind = "raise" THEN "unwind"
    ELSE IF res.data # None THEN "zip_acquire"
    ELSE "append_failed"

AsCompleted(c) ==
    /\ ppc = "as_completed"
    /\ c \in Submitted \ yielded
    /\ Done(c)
    /\ yielded' = yielded \cup {c}
    /\ ppc' = ResultBranch(Outcome(c))
    /\ cur' = IF Outcome(c).kind = "raise" THEN cur ELSE Outcome(c)
    /\ UNCHANGED <<mainVars, stageVars, args, futures, batchVars, term,
                   globalVars, lockVars, next_symbol, remaining, pure, df_master>>

\* line 351: with zip_lock
ZipAcquire ==
    /\ ppc = "zip_acquire"
    /\ ~zip_lock
    /\ zip_lock' = TRUE
    /\ ppc' = "zip_write"
    /\ UNCHANGED <<mainVars, stageVars, poolVars, batchVars, term,
                   globalVars, counter_lock, next_symbol, remaining, pure, df_master>>

\* the archive opened with mode "w": each write starts the archive afresh
ZipWrite_Truncate ==
    /\ ppc = "zip_write"
    /\ zip_buf' = <<cur.symbol>>
    /\ ppc' = "zip_release"
    /\ UNCHANGED <<mainVars, stageVars, poolVars, index_success,
                   index_failed, term, globalVars, lockVars, next_symbol, remaining, pure, df_master>>

\* lines 352-353: zf.writestr(f"{symbol}.xlsx", data)
ZipWrite ==
    /\ ppc = "zip_write"
    /\ zip_buf' = Append(zip_buf, cur.symbol)
    /\ ppc' = "zip_release"
    /\ UNCHANGED <<mainVars, stageVars, poolVars, index_success,
                   index_failed, term, globalVars, lockVars, next_symbol, remaining, pure, df_master>>

ZipRelease ==
    /\ ppc = "zip_release"
    /\ zip_lock' = FALSE
    /\ ppc' = "append_success"
    /\ UNCHANGED <<mainVars, stageVars, poolVars, batchVars, term,
                   globalVars, counter_lock, next_symbol, remaining, pure, df_master>>

\* line 354
AppendSuccess ==
    /\ ppc = "append_success"
    /\ index_success' = Append(index_success, cur.symbol)
    /\ cur' = NoResult
    /\ ppc' = "as_completed"
    /\ UNCHANGED <<mainVars, stageVars, args, futures, yielded, zip_buf,
                   index_failed, term, globalVars, lockVars, next_symbol, remaining, pure, df_master>>

\* line 356
AppendFailed ==
    /\ ppc = "append_failed"
    /\ index_failed' = Append(index_failed, cur.symbol)
    /\ ppc' = "append_details"
    /\ UNCHANGED <<mainVars, stageVars, poolVars, zip_buf, index_success,
                   term, globalVars, lockVars, next_symbol, remaining, pure, df_master>>

\* line 357
AppendDetails ==
    /\ ppc = "append_details"
    /\ failed_details' = Append(failed_details, <<cur.symbol, cur.err>>)
    /\ cur' = NoResult
    /\ ppc' = "as_completed"
    /\ UNCHANGED <<mainVars, stageVars, args, futures, yielded, batchVars,
                   term, success_list, failed_list, lockVars, next_symbol, remaining, pure, df_master>>

\* an executor shut down with wait=False
ExecutorShutdownDone_NoWait == TRUE

\* ThreadPoolExecutor.__exit__ is shutdown(wait=True): it returns when every
\* submitted work item has run
ExecutorShutdownDone == \A c \in Submitted : Done(c)

\* the for loop is exhausted: every future was handed out; the with block
\* is left normally
LoopEnd ==
    /\ ppc = "as_completed"
    /\ yielded = Submitted
    /\ ExecutorShutdownDone
    /\ ppc' = "counter_acquire"
    /\ UNCHANGED <<mainVars, stageVars, poolVars, batchVars, term,
                   globalVars, lockVars, next_symbol, remaining, pure, df_master>>

\* the with block is left by the exception of future.result(): after the
\* shutdown the exception goes on out of process_index
Unwind ==
    /\ ppc = "unwind"
    /\ ExecutorShutdownDone
    /\ Raise
    /\ UNCHANGED <<idx, processed, sent, caught, stageVars, poolVars, batchVars,
                   globalVars, lockVars, next_symbol, remaining, pure, df_master>>

\* lines 360-362
CounterAcquire ==
    /\ ppc = "counter_acquire"
    /\ ~counter_lock
    /\ counter_lock' = TRUE
    /\ ppc' = "extend_success"
    /\ UNCHANGED <<mainVars, stageVars, poolVars, batchVars, term,
                   globalVars, zip_lock, next_symbol, remaining, pure, df_master>>

ExtendSuccess ==
    /\ ppc = "extend_success"
    /\ success_list' = success_list \o index_success
    /\ ppc' = "extend_failed"
    /\ UNCHANGED <<mainVars, stageVars, poolVars, batchVars, term,
                   failed_list, failed_details, lockVars, next_symbol, remaining, pure, df_master>>

ExtendFailed ==
    /\ ppc = "extend_failed"
    /\ failed_list' = failed_list \o index_failed
    /\ ppc' = "counter_release"
    /\ UNCHANGED <<mainVars, stageVars, poolVars, batchVars, term,
                   success_list, failed_details, lockVars, next_symbol, remaining, pure, df_master>>

CounterRelease ==
    /\ ppc = "counter_release"
    /\ counter_lock' = FALSE
    /\ ppc' = "finalize"
    /\ UNCHANGED <<mainVars, stageVars, poolVars, batchVars, term,
                   globalVars, zip_lock, next_symbol, remaining, pure, df_master>>

\* lines 364-370: zip_buf.seek(0); return zip_buf.read(), or None
FinalValue == IF index_success # <<>> THEN Bytes(zip_buf) ELSE NoBytes

Finalize ==
    /\ ppc = "finalize"
    /\ Return(FinalValue,
              IF FinalValue.some THEN "ArchiveProduced" ELSE "NoDataProduced")
    /\ UNCHANGED <<idx, processed, sent, caught, stageVars, poolVars, batchVars,
                   globalVars, lockVars, next_symbol, remaining, pure, df_master>>

\* ------------------------------------------------------------------ main
\* line 393: the loop body starts for SYMBOL_CONFIG's idx-th item; the
\* call gets fresh locals
Call ==
    /\ mpc = "loop"
    /\ idx <= NumIndices
    /\ mpc' = "in_index"
    /\ ppc' = "expiry"
    /\ processed' = [processed EXCEPT ![idx] = @ + 1]
    /\ zip_bytes' = NoBytes
    /\ is_expiry' = "unset"
    /\ strike_range' = "unset"
    /\ calls' = [range |-> 0, filter |-> 0, submit |-> 0]
    /\ args' = <<>>
    /\ futures' = <<>>
    /\ yielded' = {}
    /\ cur' = NoResult
    /\ zip_buf' = <<>>
    /\ index_success' = <<>>
    /\ index_failed' = <<>>
    /\ term' = "running"
    /\ UNCHANGED <<idx, sent, caught, globalVars, lockVars, next_symbol, remaining, pure, df_master>>

\* the except clause ending in break
ContinueAt_Break(k) == NumIndices + 1

\* where the for loop goes after the except clause's continue
ContinueAt(k) == k + 1

\* main without the "if zip_bytes:" test: whatever process_index returned
\* is handed to send_zip_to_telegram
MainSend_Always ==
    /\ mpc = "got"
    /\ sent' = [sent EXCEPT ![idx] = @ + 1]
    /\ \E d \in {"True", "False", "raise"} :
          mpc' = IF d = "raise" THEN "caught" ELSE "save"
    /\ UNCHANGED <<idx, zip_bytes, processed, caught, ppc, stageVars, poolVars,
                   batchVars, term, globalVars, lockVars, next_symbol, remaining, pure, df_master>>

\* lines 395-398: a non-empty archive goes to send_zip_to_telegram, which
\* returns True or False, or raises from the temporary file it writes
\* before its try block
MainSend ==
    /\ mpc = "got"
    /\ zip_bytes.some
    /\ sent' = [sent EXCEPT ![idx] = @ + 1]
    /\ \E d \in {"True", "False", "raise"} :
          mpc' = IF d = "raise" THEN "caught" ELSE "save"
    /\ UNCHANGED <<idx, zip_bytes, processed, caught, ppc, stageVars, poolVars,
                   batchVars, term, globalVars, lockVars, next_symbol, remaining, pure, df_master>>

\* lines 401-403: the local copy; open() or write() can raise OSError
MainSave ==
    /\ mpc = "save"
    /\ \E ok \in BOOLEAN :
          IF ok THEN mpc' = "loop" /\ idx' = idx + 1
                ELSE mpc' = "caught" /\ UNCHANGED idx
    /\ UNCHANGED <<zip_bytes, processed, sent, caught, ppc, stageVars, poolVars,
                   batchVars, term, globalVars, lockVars, next_symbol, remaining, pure, df_master>>

\* lines 404-405
MainNoData ==
    /\ mpc = "got"
    /\ ~zip_bytes.some
    /\ mpc' = "loop"
    /\ idx' = idx + 1
    /\ UNCHANGED <<zip_bytes, processed, sent, caught, ppc, stageVars, poolVars,
                   batchVars, term, globalVars, lockVars, next_symbol, remaining, pure, df_master>>

\* lines 407-410: except Exception: log, continue
MainCatch ==
    /\ mpc = "caught"
    /\ mpc' = "loop"
    /\ caught' = caught \cup {idx}
    /\ idx' = ContinueAt(idx)
    /\ UNCHANGED <<zip_bytes, processed, sent, ppc, stageVars, poolVars,
                   batchVars, term, globalVars, lockVars, next_symbol, remaining, pure, df_master>>

\* lines 412-418: the loop is over, the summary is logged
MainSummary ==
    /\ mpc = "loop"
    /\ idx > NumIndices
    /\ mpc' = "done"
    /\ UNCHANGED <<idx, zip_bytes, processed, sent, caught, ppc, stageVars, poolVars,
                   batchVars, term, globalVars, lockVars, next_symbol, remaining, pure, df_master>>

Worker == \E c \in Submitted :
              WorkerStart(c) \/ WorkerResponse(c) \/ WorkerWake(c)

Collect == \E c \in Submitted : AsCompleted(c)

Next ==
    \/ Call
    \/ CheckExpiry
    \/ CalcRange
    \/ GetSymbols
    \/ Submit
    \/ Worker
    \/ Collect
    \/ ZipAcquire
    \/ ZipWrite
    \/ ZipRelease
    \/ AppendSuccess
    \/ AppendFailed
    \/ AppendDetails
    \/ LoopEnd
    \/ Unwind
    \/ CounterAcquire
    \/ ExtendSuccess
    \/ ExtendFailed
    \/ CounterRelease
    \/ Finalize
    \/ MainSend
    \/ MainSave
    \/ MainNoData
    \/ MainCatch
    \/ MainSummary

Spec == Init /\ [][Next]_vars

\* The run at its last index, the earlier indices having been skipped as
\* not expiring today, with a reference table of up to MaxBatch contracts.
InitLastIndex ==
    /\ mpc = "loop"
    /\ idx = NumIndices
    /\ zip_bytes = NoBytes
    /\ processed = [k \in Indices |-> IF k < NumIndices THEN 1 ELSE 0]
    /\ sent = [k \in Indices |-> 0]
    /\ caught = {}
    /\ ppc = "idle"
    /\ is_expiry = "False"
    /\ strike_range = "unset"
    /\ calls = [range |-> 0, filter |-> 0, submit |-> 0]
    /\ args = <<>>
    /\ futures = <<>>
    /\ yielded = {}
    /\ cur = NoResult
    /\ zip_buf = <<>>
    /\ index_success = <<>>
    /\ index_failed = <<>>
    /\ term = "Skipped"
    /\ success_list = <<>>
    /\ failed_list = <<>>
    /\ failed_details = <<>>
    /\ zip_lock = FALSE
    /\ counter_lock = FALSE
    /\ next_symbol = 1
    /\ remaining = MaxBatch
    /\ pure = NoCall
    /\ df_master \in MasterTables

SpecBatch == InitLastIndex /\ [][Next]_vars

\* ------------------------------------------------------------ scheduling
\* the steps of the main thread: main and the process_index call it is in
MainThread ==
    \/ Call \/ CheckExpiry \/ CalcRange \/ GetSymbols \/ Submit \/ Collect
    \/ ZipAcquire \/ ZipWrite \/ ZipRelease
    \/ AppendSuccess \/ AppendFailed \/ AppendDetails
    \/ LoopEnd \/ Unwind
    \/ CounterAcquire \/ ExtendSuccess \/ ExtendFailed \/ CounterRelease
    \/ Finalize
    \/ MainSend \/ MainSave \/ MainNoData \/ MainCatch \/ MainSummary

\* the steps of the pool thread that runs download_symbol for contract c
WorkerThread(c) == WorkerStart(c) \/ WorkerResponse(c) \/ WorkerWake(c)

\* The main thread keeps running; the pool hands a queued work item to an
\* idle thread, and every provider request (timeout of the HTTP client) and
\* every time.sleep returns.
Fairness ==
    /\ WF_vars(MainThread)
    /\ \A c \in 1..MaxContracts \cup 1..MaxBatch : WF_vars(WorkerThread(c))

\* a whole run, and a run whose last index has a batch larger than the pool
SpecFair == (Init \/ InitLastIndex) /\ [][Next]_vars /\ Fairness

\* --------------------------------------------------- startup of the script
\* Positions of the script before main's loop: "import" (module level,
\* lines 34-53), "login" (lines 378-384), "load_master" (line 387).  The
\* process ends with status 1 in "exit1_credentials", "exit1_login" and
\* "exit1_master", and with status 0 after the summary ("done").
startupUnchanged == <<idx, zip_bytes, processed, sent, caught, ppc, stageVars,
                      poolVars, batchVars, term, globalVars, lockVars,
                      next_symbol, remaining, pure>>

\* lines 43-44: a missing ANGEL_API_KEY, ANGEL_CLIENT_ID or ANGEL_PIN raises
\* RuntimeError at module level, which ends the interpreter with status 1
ImportModule ==
    /\ mpc = "import"
    /\ \E credentials \in {"present", "missing"} :
          mpc' = IF credentials = "present" THEN "login" ELSE "exit1_credentials"
    /\ UNCHANGED <<startupUnchanged, df_master>>

\* lines 378-384: generateSession returns an ok status, or a falsy one
\* (RuntimeError("Login failed")), or the TOTP or the request raises; the
\* exception leaves main and line 427 exits with status 1
Login ==
    /\ mpc = "login"
    /\ \E session \in {"ok", "refused", "raise"} :
          mpc' = IF session = "ok" THEN "load_master" ELSE "exit1_login"
    /\ UNCHANGED <<startupUnchanged, df_master>>

\* line 387: load_symbol_master returns the table or raises (HTTP error,
\* timeout, unreadable zip or csv); it is outside the loop's try block, so
\* the exception leaves main and line 427 exits with status 1
LoadMaster ==
    /\ mpc = "load_master"
    /\ \E table \in MasterTables \cup {"raise"} :
          IF table = "raise"
              THEN mpc' = "exit1_master" /\ UNCHANGED df_master
              ELSE mpc' = "loop" /\ df_master' = table
    /\ UNCHANGED startupUnchanged

NonZeroExit == mpc \in {"exit1_credentials", "exit1_login", "exit1_master"}

InitStartup ==
    /\ mpc = "import"
    /\ idx = 1
    /\ zip_bytes = NoBytes
    /\ processed = [k \in Indices |-> 0]
    /\ sent = [k \in Indices |-> 0]
    /\ caught = {}
    /\ ppc = "idle"
    /\ is_expiry = "unset"
    /\ strike_range = "unset"
    /\ calls = [range |-> 0, filter |-> 0, submit |-> 0]
    /\ args = <<>>
    /\ futures = <<>>
    /\ yielded = {}
    /\ cur = NoResult
    /\ zip_buf = <<>>
    /\ index_success = <<>>
    /\ index_failed = <<>>
    /\ term = "none"
    /\ success_list = <<>>
    /\ failed_list = <<>>
    /\ failed_details = <<>>
    /\ zip_lock = FALSE
    /\ counter_lock = FALSE
    /\ next_symbol = 1
    /\ remaining = MaxContracts
    /\ pure = NoCall
    /\ df_master = "unloaded"

NextRun ==
    \/ ImportModule
    \/ Login
    \/ LoadMaster
    \/ Next

\* the script from the start of the interpreter
SpecRun == InitStartup /\ [][NextRun]_vars

\* ------------------------------------------------------ the strike range
MaxPrice == 6       \* bound on min_low and max_high
MaxBuffer == 4      \* bound on the buffer
MaxStep == 3        \* bound on the rounding multiple

\* SYMBOL_CONFIG["BANKNIFTY"], lines 67-72
BankNiftyConfig == [round_function |-> 100, buffer |-> 1000]

round_down_to_multiple_Up(price, multiple) ==
    (-((-price) \div multiple)) * multiple

\* line 102: math.floor(price / multiple) * multiple
round_down_to_multiple(price, multiple) ==
    (price \div multiple) * multiple

round_up_to_multiple_Down(price, multiple) ==
    (price \div multiple) * multiple

\* line 105: math.ceil(price / multiple) * multiple
round_up_to_multiple(price, multiple) ==
    (-((-price) \div multiple)) * multiple

\* get_historical_data's result: None (NoHist), or a summary; numeric tells
\* whether min_low and max_high are finite numbers, which they are not when
\* a column of the candles is all null (NaN) or holds strings (NotANumber)
NoHist == [present |-> FALSE, numeric |-> TRUE, min_low |-> 0, max_high |-> 0]
NotANumber == [present |-> TRUE, numeric |-> FALSE, min_low |-> 0, max_high |-> 0]
\* calculate_strike_range's result: (None, None), an exception, or a range
NoRange == [present |-> FALSE, raised |-> FALSE, start |-> 0, end |-> 0]
RangeRaised == [present |-> FALSE, raised |-> TRUE, start |-> 0, end |-> 0]

\* lines 160-173, with buffer = symbol_config["buffer"] (no caller passes
\* one); hist is get_historical_data's result, NoHist for None
calculate_strike_range(hist, symbol_config) ==
    IF ~hist.present
        THEN NoRange
    ELSE IF ~hist.numeric
        THEN RangeRaised
        ELSE LET buffer == symbol_config.buffer
                 multiple == symbol_config.round_function
                 start == round_down_to_multiple(hist.min_low - buffer, multiple)
                 end == round_up_to_multiple(hist.max_high + buffer, multiple)
             IN  [present |-> TRUE, raised |-> FALSE,
                  start |-> IF start > 0 THEN start ELSE 0,
                  end |-> end]

\* the historical summaries and index profiles a call is examined with
Summaries ==
    {NoHist, NotANumber,
     [present |-> TRUE, numeric |-> TRUE, min_low |-> 50230, max_high |-> 51870]}
      \cup {[present |-> TRUE, numeric |-> TRUE, min_low |-> lo, max_high |-> hi] :
                lo \in 0..MaxPrice, hi \in 0..MaxPrice}
Profiles ==
    {BankNiftyConfig}
      \cup [round_function : 1..MaxStep, buffer : 0..MaxBuffer]

pipelineVars == <<mpc, idx, zip_bytes, processed, sent, caught, ppc, stageVars,
                  poolVars, batchVars, term, globalVars, lockVars,
                  next_symbol, remaining, df_master>>

PipelineIdle ==
    /\ mpc = "loop"
    /\ idx = 1
    /\ zip_bytes = NoBytes
    /\ processed = [k \in Indices |-> 0]
    /\ sent = [k \in Indices |-> 0]
    /\ caught = {}
    /\ ppc = "idle"
    /\ is_expiry = "unset"
    /\ strike_range = "unset"
    /\ calls = [range |-> 0, filter |-> 0, submit |-> 0]
    /\ args = <<>>
    /\ futures = <<>>
    /\ yielded = {}
    /\ cur = NoResult
    /\ zip_buf = <<>>
    /\ index_success = <<>>
    /\ index_failed = <<>>
    /\ term = "none"
    /\ success_list = <<>>
    /\ failed_list = <<>>
    /\ failed_details = <<>>
    /\ zip_lock = FALSE
    /\ counter_lock = FALSE
    /\ next_symbol = 1
    /\ remaining = MaxContracts
    /\ df_master = "complete"

InitRange ==
    /\ PipelineIdle
    /\ \E hist \in Summaries, symbol_config \in Profiles :
          /\ hist.present => hist.min_low <= hist.max_high
          /\ pure = [fn |-> "range", hist |-> hist, symbol_config |-> symbol_config,
                     returned |-> FALSE, range |-> NoRange]

\* line 308: start, end = calculate_strike_range(smart, symbol_config);
\* returned is set when the call is over, by return or by exception
CallCalculateStrikeRange ==
    /\ pure.fn = "range"
    /\ ~pure.returned
    /\ pure' = [pure EXCEPT !.returned = TRUE,
                            !.range = calculate_strike_range(pure.hist,
                                                             pure.symbol_config)]
    /\ UNCHANGED pipelineVars

NextRange ==
    \/ CallCalculateStrikeRange

SpecRange == InitRange /\ [][NextRange]_vars

\* --------------------------------------------------- the contract filter
MaxRows == 2        \* bound on the rows of the reference table
MaxStrike == 3      \* bound on the StrikePrice of a row

\* A date is [day, month, year].  The text of an Expiry cell is kept as its
\* three fields around the "-" separators: [dd, mon, yyyy].
Dates == [day : {25, 26}, month : {1}, year : {2024}]

\* %d of strftime: the day as two digits
strftime_d(day) == CASE day = 25 -> "25" [] day = 26 -> "26"
\* %b of strftime in the C locale: the abbreviated month name
strftime_b(month) == CASE month = 1 -> "Jan"
\* %Y of strftime: the year with century
strftime_Y(year) == CASE year = 2024 -> "2024"
\* str.upper() of a month field
upper(text) == CASE text \in {"Jan", "JAN"} -> "JAN"

\* %d, %b, %Y of strptime (pd.to_datetime with format): %b matches the month
\* name in any case
strptime_d(text) == CASE text = "25" -> 25 [] text = "26" -> 26
strptime_b(text) == CASE upper(text) = "JAN" -> 1
strptime_Y(text) == CASE text = "2024" -> 2024

\* line 195: pd.to_datetime(df["Expiry"], format="%d-%b-%Y").dt.date
to_date(expiry) ==
    [day |-> strptime_d(expiry.dd), month |-> strptime_b(expiry.mon),
     year |-> strptime_Y(expiry.yyyy)]

\* line 200: expiry_date.strftime("%d-%b-%Y").upper()
expiry_text(expiry_date) ==
    [dd |-> strftime_d(expiry_date.day),
     mon |-> upper(strftime_b(expiry_date.month)),
     yyyy |-> strftime_Y(expiry_date.year)]

ExpiryCells ==
    {[dd |-> "25", mon |-> "JAN", yyyy |-> "2024"],
     [dd |-> "25", mon |-> "Jan", yyyy |-> "2024"],
     [dd |-> "26", mon |-> "JAN", yyyy |-> "2024"]}

\* rows of the symbol master, with the four columns the filter reads
Rows ==
    [Symbol : {"BANKNIFTY", "FINNIFTY"}, Instrument : {"OPTIDX", "FUTIDX"},
     Expiry : ExpiryCells, StrikePrice : 0..MaxStrike]
Tables == UNION {[1..n -> Rows] : n \in 0..MaxRows}

\* lines 192-196, the first component of the result; today is
\* datetime.now(IST).date()
is_today_expiry(df, symbol, today) ==
    today \in {to_date(df[i].Expiry) :
                  i \in {j \in 1..Len(df) : /\ df[j].Symbol = symbol
                                            /\ df[j].Instrument = "OPTIDX"}}

\* lines 199-213; the StrikePrice column is numeric, which pd.to_numeric
\* leaves as it is
get_option_symbols(df, symbol, expiry_date, start, end, strike_multiple) ==
    LET expiry == expiry_text(expiry_date)
        keep(row) == /\ row.Symbol = symbol
                     /\ row.Instrument = "OPTIDX"
                     /\ row.Expiry = expiry
                     /\ row.StrikePrice >= start
                     /\ row.StrikePrice <= end
                     /\ row.StrikePrice % strike_multiple = 0
    IN  SelectSeq(df, keep)

InitFilter ==
    /\ PipelineIdle
    /\ \E df \in Tables, today \in Dates, strike_multiple \in 1..2 :
          pure = [fn |-> "filter", df |-> df, symbol |-> "BANKNIFTY",
                  today |-> today, start |-> 1, end |-> MaxStrike - 1,
                  strike_multiple |-> strike_multiple, at |-> "expiry",
                  is_expiry |-> FALSE, symbols |-> <<>>]

\* line 299: is_expiry, expiry = is_today_expiry(df_master, symbol_name)
CallIsTodayExpiry ==
    /\ pure.fn = "filter"
    /\ pure.at = "expiry"
    /\ pure' = [pure EXCEPT !.at = "filter",
                            !.is_expiry = is_today_expiry(pure.df, pure.symbol,
                                                          pure.today)]
    /\ UNCHANGED pipelineVars

\* lines 316-323: df = get_option_symbols(df_master, symbol_name, expiry, ...)
CallGetOptionSymbols ==
    /\ pure.fn = "filter"
    /\ pure.at = "filter"
    /\ pure' = [pure EXCEPT !.at = "returned",
                            !.symbols = get_option_symbols(pure.df, pure.symbol,
                                            pure.today, pure.start, pure.end,
                                            pure.strike_multiple)]
    /\ UNCHANGED pipelineVars

NextFilter ==
    \/ CallIsTodayExpiry
    \/ CallGetOptionSymbols

SpecFilter == InitFilter /\ [][NextFilter]_vars

\* ================================================================ claims
Count(seq, x) == Cardinality({k \in 1..Len(seq) : seq[k] = x})

\* the with block of process_index has been left: the code after it is
\* running, or process_index itself has been left after submitting
PostFetch == {"counter_acquire", "extend_success", "extend_failed",
              "counter_release", "finalize"}
FetchStageOver == ppc \in PostFetch \/ (ppc = "idle" /\ calls.submit > 0)

\* every worker of the batch ended with a tuple: data, or "No data" after
\* an empty series or exhausted retries
AllOutcomesReturned ==
    \A c \in Submitted : Done(c) /\ Outcome(c).kind = "return"

\* C1: once the fetch stage of a batch is over, and whatever mix of success,
\* empty data and exhausted retries its contracts ended with, the symbols
\* recorded as succeeded and as failed number as many as the contracts
\* submitted, and every submitted contract is recorded exactly once.
C1_EveryContractRecordedOnce ==
    (FetchStageOver /\ AllOutcomesReturned) =>
        /\ calls.submit = Len(args)
        /\ Submitted = Range(args)
        /\ Len(index_success) + Len(index_failed) = calls.submit
        /\ \A c \in Submitted :
              Count(index_success, c) + Count(index_failed, c) = 1

C1_Witness ==
    /\ FetchStageOver
    /\ AllOutcomesReturned
    /\ {futures[c].r : c \in Submitted} = {"ok_data", "ok_empty", None}
    /\ Len(index_success) + Len(index_failed) = calls.submit

\* C2: when process_index has been left after the fetch stage, the archive
\* has as many entries as symbols are recorded as succeeded, and every
\* contract whose response was ok with an empty series has no archive entry
\* and is recorded as failed, once.
C2_ArchiveMatchesSuccess ==
    (ppc = "idle" /\ calls.submit > 0) =>
        /\ Len(zip_buf) = Len(index_success)
        /\ \A c \in Submitted :
              futures[c].r = "ok_empty" =>
                  /\ Count(zip_buf, c) = 0
                  /\ Count(index_success, c) = 0
                  /\ Count(index_failed, c) = 1

\* C3: when every worker of a batch of N contracts succeeds, the archive
\* ends with exactly N entries, one per submitted symbol, and N recorded
\* successes, whatever the order in which the workers ran and completed.
C3_AllSucceedNoLostUpdate ==
    (FetchStageOver /\ \A c \in Submitted : futures[c].r = "ok_data") =>
        /\ Len(zip_buf) = Len(args)
        /\ Range(zip_buf) = Range(args)
        /\ Len(index_success) = Len(args)
        /\ Range(index_success) = Range(args)
        /\ ppc = "idle" => zip_bytes = Bytes(zip_buf)

C3_Witness ==
    /\ ppc = "idle"
    /\ Len(args) = 4
    /\ \A c \in Submitted : futures[c].r = "ok_data"
    /\ zip_bytes.some
    /\ Len(zip_bytes.entries) = 4
    /\ zip_bytes.entries # args

\* C4: download_symbol never raises: whatever the provider does, every
\* finished future holds a (symbol, data, err) tuple, and future.result()
\* never puts process_index on the exception path.
C4_WorkerNeverRaises ==
    /\ \A c \in Submitted : Done(c) => Outcome(c).kind = "return"
    /\ ppc # "unwind"

\* C5: each index of SYMBOL_CONFIG is processed exactly once, in order,
\* whether or not the loop body of an earlier index ended in the except
\* clause: when main reaches its summary every index has had its one
\* process_index call.
C5_EveryIndexProcessedOnce ==
    /\ \A k \in Indices :
          processed[k] = IF k < idx \/ (k = idx /\ mpc # "loop") THEN 1 ELSE 0
    /\ caught \subseteq 1..(idx - 1)
    /\ mpc = "caught" => idx \in Indices
    /\ mpc = "done" => \A k \in Indices : processed[k] = 1

C5_Witness ==
    /\ mpc = "done"
    /\ caught = {1, 2}
    /\ sent[2] = 1
    /\ processed = [k \in Indices |-> 1]
    /\ term = "ArchiveProduced"

\* C6: the stages of an index run in order and each only when the one
\* before passed: the range is computed only on an expiry day, the filter
\* runs only on a present range, workers are submitted only for a non-empty
\* filter result; when a gate fails (not an expiry day, no range, an empty
\* filter result) process_index ends Skipped, having returned None with no
\* archive and no contract submitted.  A stage that raises instead of
\* returning (term "Raised" with args empty) is no gate result: no later
\* stage runs, nothing is submitted and no archive exists.
C6_StagesGated ==
    /\ calls.range <= 1
    /\ calls.filter <= 1
    /\ calls.range > 0 => is_expiry = "True"
    /\ calls.filter > 0 => calls.range > 0 /\ strike_range = "present"
    /\ calls.submit > 0 => calls.filter > 0 /\ args # <<>>
    /\ (\/ is_expiry = "False"
        \/ strike_range = None
        \/ (calls.filter > 0 /\ args = <<>> /\ term # "Raised"))
          => (term = "Skipped" /\ ppc = "idle")
    /\ (term = "Raised" /\ calls.submit = 0) =>
          /\ ppc = "idle"
          /\ ~zip_bytes.some
          /\ zip_buf = <<>>
          /\ Submitted = {}
    /\ term = "Skipped" =>
          /\ ~zip_bytes.some
          /\ zip_buf = <<>>
          /\ calls.submit = 0
          /\ Submitted = {}

C6_Witness ==
    /\ term = "Skipped"
    /\ is_expiry = "True"
    /\ strike_range = "present"
    /\ calls = [range |-> 1, filter |-> 1, submit |-> 0]
    /\ args = <<>>
    /\ idx = 2

\* C7: a process_index call that reached its fetch stage ends by returning:
\* the finalized archive if at least one contract succeeded, None if none
\* did; it does not end by raising.
C7_FetchEndsInArchiveOrNone ==
    (ppc = "idle" /\ calls.submit > 0) =>
        /\ term \in {"ArchiveProduced", "NoDataProduced"}
        /\ zip_bytes.some <=> (\E c \in Submitted : futures[c].r = "ok_data")

\* C8: full barrier: when the code after the with block runs, and when
\* process_index has been left by return or by exception, every contract of
\* the batch has been submitted and none of its workers is queued, in a
\* request or in a backoff delay.
C8_FullBarrier ==
    FetchStageOver =>
        /\ calls.submit = Len(args)
        /\ \A c \in Submitted : Done(c)

C8_Witness ==
    /\ ppc = "idle"
    /\ term = "Raised"
    /\ Len(args) = 4
    /\ Cardinality(Submitted \ yielded) >= 2
    /\ \E c \in Submitted \ yielded : futures[c].r = None

\* C9: at most MAX_WORKERS workers are in a provider request or a backoff
\* delay at the same time.
C9_AtMostMaxWorkers ==
    Cardinality({c \in Submitted : Running(c)}) <= MAX_WORKERS

C9_Witness ==
    /\ Cardinality(Submitted) = 4
    /\ Cardinality({c \in Submitted : Running(c)}) = MAX_WORKERS
    /\ \E c \in Submitted : futures[c].st = "queued"
    /\ \E c \in Submitted : futures[c].st = "sleep"
    /\ \E c \in Submitted : futures[c].st = "request"

\* what the steps of a worker may do to its future f, giving g
RetryStep(f, g) ==
    \* a request is sent when download_symbol starts, or after a backoff
    \* while attempts remain, one at a time
    /\ g.nreq # f.nreq /\ g.st # "done" =>
          /\ g.nreq = f.nreq + 1
          /\ g.st = "request"
          /\ f.st = "queued" \/ (f.st = "sleep" /\ f.nfail < MAX_RETRIES)
    \* a request ends in the backoff, one more attempt failed, or in the
    \* return of an ok response
    /\ f.st = "request" /\ g # f =>
          \/ g.st = "sleep" /\ g.nfail = f.nfail + 1 /\ g.nreq = f.nreq
          \/ g.st = "done" /\ g.r \in OkResponses
    \* a backoff is followed by the next request or by the end of the loop
    /\ f.st = "sleep" /\ g # f =>
          \/ g.st = "request" /\ g.nfail = f.nfail
          \/ g.st = "done" /\ g.r = None
    \* the value the loop ends with
    /\ f.st # "done" /\ g.st = "done" =>
          /\ g.r = None <=> (f.st = "sleep" /\ f.nfail = MAX_RETRIES)
          /\ g.r \in OkResponses <=> f.st = "request"
          /\ g.r = "key_error" <=> f.st = "queued"
    /\ f.st = "done" => g = f

\* C10: get_candles_with_retry sends at most MAX_RETRIES requests for a
\* contract, each at the start or after a backoff that follows a failed
\* attempt; a transport exception and a not-ok status both cost the attempt
\* and go to the backoff; an ok response ends the loop with that response;
\* and the loop ends with None exactly when MAX_RETRIES attempts have
\* failed.  (A download that fails on its row before the loop sends none.)
C10_RetryBudget ==
    /\ [](\A c \in Submitted :
             LET f == futures[c] IN
               /\ f.nreq <= MAX_RETRIES
               /\ f.nfail <= f.nreq
               /\ f.st = "request" =>
                     /\ f.nreq = f.nfail + 1
                     /\ \A resp \in {"exc", "notok"} :
                           get_candles_attempt(f, resp).st = "sleep"
                     /\ \A resp \in OkResponses :
                           get_candles_attempt(f, resp).r = resp
               /\ f.st = "sleep" => f.nreq = f.nfail)
    /\ [][\A c \in Submitted \cap DOMAIN futures' :
             RetryStep(futures[c], futures'[c])]_vars

C10_Witness ==
    /\ \E c \in Submitted :
          futures[c].st = "sleep" /\ futures[c].nfail = MAX_RETRIES
    /\ \E c \in Submitted : Done(c) /\ futures[c].r = None
    /\ \E c \in Submitted :
          futures[c].st = "request" /\ futures[c].nfail = 2

\* the statements of process_index that change the archive or a tally list
MutatingStatements == {"zip_write", "append_success", "append_failed",
                       "append_details", "extend_success", "extend_failed"}

\* C11: every insertion into the archive and every append to
\* index_success, index_failed, failed_details, success_list and failed_list
\* is made while zip_lock or counter_lock is held.
C11_EveryMutationUnderLock ==
    ppc \in MutatingStatements => (zip_lock \/ counter_lock)

\* C12: send_zip_to_telegram is called for an index only when process_index
\* ended with a produced archive, and then once; when the loop leaves an
\* index it goes to the next one, the index having had exactly one delivery
\* call if its terminal state was ArchiveProduced and none otherwise.
C12_DeliveryOncePerArchive ==
    [][/\ sent' # sent =>
             /\ mpc = "got"
             /\ term = "ArchiveProduced"
             /\ zip_bytes.some
             /\ sent[idx] = 0
             /\ sent' = [sent EXCEPT ![idx] = 1]
       /\ idx' # idx =>
             /\ idx' = idx + 1
             /\ sent[idx] = IF term = "ArchiveProduced" THEN 1 ELSE 0
             /\ sent' = sent
      ]_vars

C12_Witness ==
    /\ mpc = "done"
    /\ sent = [k \in Indices |-> IF k = 2 THEN 0 ELSE 1]
    /\ caught = {}
    /\ term = "ArchiveProduced"

\* C13: the process ends with a non-zero status only on a fatal startup
\* failure, that is missing credentials or a failed login or session; no
\* other failure of the run (loading the reference table, range, filter,
\* fetch, delivery) ends the process.
C13_OnlyStartupFailureExits ==
    NonZeroExit => mpc \in {"exit1_credentials", "exit1_login"}

Max0(x) == IF x > 0 THEN x ELSE 0

RangeReturned ==
    pure.fn = "range" /\ pure.returned /\ pure.hist.present /\ pure.hist.numeric

\* C15 as stated: for integer inputs with step > 0, buffer >= 0 and
\* 0 <= min_low <= max_high, the computed range has low and high multiples
\* of the step, low <= min_low - buffer + step, high >= max_high + buffer
\* and low >= 0.
C15_RangeBoundsAsStated ==
    RangeReturned =>
        LET h == pure.hist
            b == pure.symbol_config.buffer
            m == pure.symbol_config.round_function
            low == pure.range.start
            high == pure.range.end
        IN  /\ low % m = 0
            /\ high % m = 0
            /\ low <= h.min_low - b + m
            /\ high >= h.max_high + b
            /\ low >= 0

\* C15: for integer inputs with step > 0, buffer >= 0 and
\* 0 <= min_low <= max_high, the computed range has low and high multiples
\* of the step, low >= 0, low is the largest multiple of the step that is
\* at most min_low - buffer, or 0 when that is negative, and high is the
\* smallest multiple of the step that is at least max_high + buffer.
C15_RangeBounds ==
    RangeReturned =>
        LET h == pure.hist
            b == pure.symbol_config.buffer
            m == pure.symbol_config.round_function
            low == pure.range.start
            high == pure.range.end
        IN  /\ pure.range.present
            /\ low % m = 0
            /\ high % m = 0
            /\ low >= 0
            /\ low <= Max0(h.min_low - b)
            /\ low + m > h.min_low - b
            /\ high >= h.max_high + b
            /\ high - m < h.max_high + b

\* a clamped lower bound and a rounded upper bound
C15_Witness ==
    /\ RangeReturned
    /\ pure.hist.min_low - pure.symbol_config.buffer < 0
    /\ pure.range.start = 0
    /\ pure.range.end > pure.hist.max_high + pure.symbol_config.buffer

ScenarioCall ==
    /\ pure.fn = "range"
    /\ pure.returned
    /\ pure.hist = [present |-> TRUE, numeric |-> TRUE,
                    min_low |-> 50230, max_high |-> 51870]
    /\ pure.symbol_config = [round_function |-> 100, buffer |-> 1000]

\* C16 as stated: step 100, buffer 1000, min_low 50230 and max_high 51870
\* yield low = 49100 and high = 52900.
C16_ScenarioAsStated ==
    ScenarioCall => pure.range = [present |-> TRUE, raised |-> FALSE, start |-> 49100, end |-> 52900]

\* C16: step 100, buffer 1000, min_low 50230 and max_high 51870 yield
\* low = 49200 and high = 52900.
C16_Scenario ==
    ScenarioCall => pure.range = [present |-> TRUE, raised |-> FALSE, start |-> 49200, end |-> 52900]

C16_Witness == ScenarioCall /\ pure.range.present /\ pure.range.start > 0

\* the rows of the call's table that meet the five conditions of the filter
SatisfyingRows ==
    LET five(row) == /\ row.Symbol = pure.symbol
                     /\ row.Instrument = "OPTIDX"
                     /\ to_date(row.Expiry) = pure.today
                     /\ row.StrikePrice >= pure.start
                     /\ row.StrikePrice <= pure.end
                     /\ row.StrikePrice % pure.strike_multiple = 0
    IN  SelectSeq(pure.df, five)

\* C14: get_option_symbols returns exactly the rows whose Symbol is the
\* index, whose Instrument is OPTIDX, whose expiry date equals the requested
\* date, whose strike lies in [start, end] and is a multiple of the step; it
\* returns no other row and omits none of them.
C14_FilterExact ==
    (pure.fn = "filter" /\ pure.at = "returned") => pure.symbols = SatisfyingRows

\* C17: a backoff delay occurs only between two attempts: a worker is in a
\* delay only after failed attempt k = 1 or 2, for k times five seconds,
\* and after the third failed attempt it returns without a delay.
C17_BackoffOnlyBetweenAttempts ==
    \A c \in Submitted :
        futures[c].st = "sleep" =>
            /\ futures[c].nfail < MAX_RETRIES
            /\ SleepSeconds(futures[c].i) = futures[c].nfail * 5

\* C18: when process_index has been left after the fetch stage, however the
\* other contracts of the batch ended, every contract whose fetch succeeded
\* has one entry in the archive process_index returned.
C18_SuccessNeverLost ==
    (ppc = "idle" /\ calls.submit > 0) =>
        \A c \in Submitted :
            futures[c].r = "ok_data" =>
                /\ zip_bytes.some
                /\ Count(zip_bytes.entries, c) = 1

\* C19: between index processings and at the summary, whether process_index
\* returned or raised, failed_details and failed_list record the same
\* contracts, and success_list and failed_list together hold as many
\* symbols as the loop body gave an outcome to.
C19_GlobalListsAgree ==
    (mpc \in {"loop", "done"} /\ processed[NumIndices] = 1) =>
        /\ [k \in 1..Len(failed_details) |-> failed_details[k][1]] = failed_list
        /\ Len(success_list) + Len(failed_list)
              = Len(index_success) + Len(index_failed)

\* C20: when every request and every delay ends and the threads are
\* scheduled fairly, every submitted worker eventually finishes, every
\* process_index call is eventually left by return or by exception, and
\* the run eventually logs its summary with every index processed.
C20_RunTerminates ==
    /\ \A c \in 1..MaxContracts \cup 1..MaxBatch :
          (c \in Submitted /\ futures[c].st # "done")
              ~> (c \in Submitted /\ futures[c].st = "done")
    /\ (mpc = "in_index") ~> (mpc \in {"got", "caught"})
    /\ <>(mpc = "done" /\ \A k \in Indices : processed[k] = 1)

\* a work item waits in the queue while every pool thread is in the delay
\* after its last failed attempt
C20_Witness ==
    /\ ppc = "as_completed"
    /\ ~PoolHasIdleThread
    /\ \E c \in Submitted : futures[c].st = "queued"
    /\ \A d \in Submitted :
          Running(d) => futures[d].st = "sleep" /\ futures[d].nfail = MAX_RETRIES

====
